---- MODULE Spec2Model ----
(***************************************************************************)
(* State-machine model of the SimpleMedicalExtractor component             *)
(* (client/src/components/ds.jsx): the submit handler and its network      *)
(* exchange, the sample loader, the modal controls and the PDF export      *)
(* with its pagination loop.                                               *)
(*                                                                         *)
(* Numbers.  imgHeight = canvas.height * 210 / canvas.width is a JavaScript*)
(* double.  It is modelled as an exact fraction [num, den] in lowest terms,*)
(* with den = 0 standing for the non-finite doubles: 1/0 = Infinity,       *)
(* -1/0 = -Infinity, 0/0 = NaN.  For canvas dimensions below 2^30 the      *)
(* rounded quotient lies on the same side of every multiple of 297 as the  *)
(* exact one, and the subtractions heightLeft - 297 and                    *)
(* heightLeft - imgHeight are exact in doubles, so the loop test and the   *)
(* positions computed here coincide with the ones the code computes.       *)
(*                                                                         *)
(* Awaits.  handleSubmit writes no state between `await fetch` and the end *)
(* of the exchange, and handleDownload writes none while it awaits         *)
(* html2canvas, so each handler is one action up to its first await and    *)
(* one action per way the awaited operation completes.                     *)
(***************************************************************************)
EXTENDS Integers, Sequences, FiniteSets, TLC

\* ------------------------------------------------------------------ bounds
MaxRequests == 2     \* submissions started in one behaviour
MaxExports == 1      \* html2canvas captures pending at the same time

\* ------------------------------------------------------- program constants
imgWidth == 210
pageHeight == 297
cacheThresholdMs == 100

\* ---------------------------------------------------------------- numbers
Abs(n) == IF n < 0 THEN -n ELSE n

Sign(n) == IF n > 0 THEN 1 ELSE IF n < 0 THEN -1 ELSE 0

RECURSIVE GCD(_, _)
GCD(a, b) == IF b = 0 THEN a ELSE GCD(b, a % b)

\* the double n / d
NumDiv(n, d) ==
  IF d = 0 THEN [num |-> Sign(n), den |-> 0]
  ELSE LET g == GCD(Abs(n), Abs(d))
           s == Sign(d)
       IN [num |-> (s * n) \div g, den |-> (s * d) \div g]

IntNum(k) == [num |-> k, den |-> 1]

NaN == [num |-> 0, den |-> 0]

IsNaN(x) == x.den = 0 /\ x.num = 0

IsFinite(x) == x.den > 0

\* the double x - y
NumSub(x, y) ==
  IF IsNaN(x) \/ IsNaN(y) THEN NaN
  ELSE IF ~IsFinite(x) THEN (IF ~IsFinite(y) /\ y.num = x.num THEN NaN ELSE x)
  ELSE IF ~IsFinite(y) THEN [num |-> -y.num, den |-> 0]
  ELSE NumDiv(x.num * y.den - y.num * x.den, x.den * y.den)

\* the comparison x >= 0 (false for NaN)
GeZero(x) == IF x.den = 0 THEN x.num = 1 ELSE x.num >= 0

\* ------------------------------------------------------------- pagination
\* const imgHeight = (canvas.height * imgWidth) / canvas.width
ScaledHeight(w, h) == NumDiv(h * imgWidth, w)

\* a loop test that stops one page early: heightLeft >= pageHeight
LoopContinuesPastPage(heightLeft) == GeZero(NumSub(heightLeft, IntNum(pageHeight)))

\* while (heightLeft >= 0)
LoopContinues(heightLeft) == GeZero(heightLeft)

\* a position taken from the page height instead of the image height
PositionFromPage(heightLeft, imgHeight) == NumSub(heightLeft, IntNum(pageHeight))

\* position = heightLeft - imgHeight
Position(heightLeft, imgHeight) == NumSub(heightLeft, imgHeight)

\* The while loop.  pages is the sequence of y positions passed to
\* pdf.addImage so far.  When heightLeft - pageHeight = heightLeft (Infinity)
\* the test stays true for ever: the loop does not terminate.
RECURSIVE PageLoop(_, _, _)
PageLoop(heightLeft, imgHeight, pages) ==
  IF ~LoopContinues(heightLeft)
  THEN [pages |-> pages, terminates |-> TRUE]
  ELSE LET added == Append(pages, Position(heightLeft, imgHeight))
           next == NumSub(heightLeft, IntNum(pageHeight))
       IN IF next = heightLeft
          THEN [pages |-> added, terminates |-> FALSE]
          ELSE PageLoop(next, imgHeight, added)

\* first page at position 0, then the loop
Paginate(w, h) ==
  LET imgHeight == ScaledHeight(w, h)
  IN PageLoop(NumSub(imgHeight, IntNum(pageHeight)), imgHeight, <<IntNum(0)>>)

\* ------------------------------------------------------------------ text
\* A text is a sequence of characters.  A character is a one-character
\* string; a character that cannot be written in a string is named by its
\* code point ("U+00A0").

\* texts typed into the textarea: empty, blank (space, newline, tab), and a
\* letter between white space
Texts == {<<>>, <<" ", "\n", "\t">>, <<"\r", "a", " ", "\n">>}

\* the sample note, abridged to its first word and last full stop
sampleText == <<"T", "h", "e", " ", "s", "c", "a", "l", "e", ".">>

\* ECMAScript WhiteSpace: TAB, VT, FF, SP, NBSP, ZWNBSP and the other
\* space separators (Zs)
WhiteSpace ==
  {"\t", "U+000B", "\f", " ", "U+00A0", "U+FEFF", "U+1680", "U+2000", "U+2001",
   "U+2002", "U+2003", "U+2004", "U+2005", "U+2006", "U+2007", "U+2008",
   "U+2009", "U+200A", "U+202F", "U+205F", "U+3000"}

\* ECMAScript LineTerminator: LF, CR, LS, PS
LineTerminator == {"\n", "\r", "U+2028", "U+2029"}

\* the characters String.prototype.trim strips
IsSpace(c) == c \in WhiteSpace \cup LineTerminator

RECURSIVE TrimStart(_)
TrimStart(s) ==
  IF s = <<>> THEN s
  ELSE IF IsSpace(Head(s)) THEN TrimStart(Tail(s)) ELSE s

RECURSIVE TrimEnd(_)
TrimEnd(s) ==
  IF s = <<>> THEN s
  ELSE IF IsSpace(s[Len(s)]) THEN TrimEnd(SubSeq(s, 1, Len(s) - 1)) ELSE s

\* String.prototype.trim
Trim(s) == TrimEnd(TrimStart(s))

\* a guard that forgets to trim
EmptyInputNoTrim(text) == text = <<>>

\* !medicalText.trim()
EmptyInput(text) == Trim(text) = <<>>

\* responseTime < 100
Classify(responseTime) == responseTime < cacheThresholdMs

\* ------------------------------------------------------------ state
VARIABLES
  medicalText,   \* useState(""): the textarea's content
  rawOutput,     \* useState(""): the payload on display
  loading,       \* useState(false)
  error,         \* useState(""): the message on display
  showModal,     \* useState(false)
  isCached,      \* useState(false): the cache-hit flag
  submitted,     \* number of exchanges started so far; the latest one's id
  exchanges,     \* ids of the exchanges whose fetch has not completed
  elapsedMs,     \* performance.now() - startTime once the latest exchange's
                 \* response is parsed; NoElapsed from its start until then
  captures,      \* html2canvas captures that have not completed
  lastExport     \* the last jsPDF document an export drew pages on

vars == <<medicalText, rawOutput, loading, error, showModal, isCached,
          submitted, exchanges, elapsedMs, captures, lastExport>>

\* A payload is opaque text; it is identified by the exchange that returned it
\* and the form it took.  The empty string is the payload of no exchange.
EmptyString == [exchange |-> 0, form |-> "empty"]

\* setRawOutput(result.raw_llama_output)
RawLlamaOutput(id) == [exchange |-> id, form |-> "raw_llama_output"]

\* setRawOutput(JSON.stringify(result, null, 2)): never the empty string
JsonText(id) == [exchange |-> id, form |-> "json"]

NoElapsed == -1

NoExport == [w |-> 0, h |-> 0, outcome |-> "none", pages |-> <<>>]

\* response bodies: an object with a truthy raw_llama_output, any other
\* non-null JSON value, and JSON null
Bodies == {"raw", "other", "null"}

ElapsedTimes == {50, 100, 150}

\* canvases html2canvas returns, <<canvas.width, canvas.height>>; the scaled
\* heights are NaN, Infinity, 297, 594, 198, 630 and 297.15
CanvasSizes == {<<0, 0>>, <<0, 198>>, <<70, 99>>, <<70, 198>>, <<210, 198>>,
                <<1000, 3000>>, <<1000, 1415>>}

\* messages of the TypeError a rejected fetch carries: Chrome's, Firefox's,
\* Safari's and undici's
FetchMessages ==
  {"Failed to fetch", "Failed to fetch (net::ERR_CONNECTION_REFUSED)",
   "NetworkError when attempting to fetch resource.", "Load failed",
   "fetch failed"}

\* `HTTP ${response.status}: ${await response.text()}`
HttpMessages ==
  {"HTTP 500: Internal Server Error", "HTTP 502: Failed to fetch upstream"}

JsonMessage == "Unexpected token < in JSON at position 0"

NullMessage == "Cannot read properties of null (reading 'raw_llama_output')"

\* a thrown Error object, and a thrown bare string (it has no .message)
ErrorObject(message) == [kind |-> "Error", message |-> message]

BareString(text) == [kind |-> "string", message |-> text]

\* what html2canvas rejects with: a bare string, an Error, an Error whose
\* message is empty
CaptureRejections ==
  {BareString("Unable to find element in cloned iframe"),
   ErrorObject("Element is not attached to a Document"),
   ErrorObject("")}

\* what jsPDF throws on an image or on coordinates it cannot use
ImageErrors ==
  {ErrorObject("Invalid argument passed to jsPDF.addImage"),
   ErrorObject("Invalid coordinates passed to jsPDF.addImage")}

\* `${error.message}`: the message of an Error, "undefined" for a string
MessageText(thrown) ==
  IF thrown.kind = "Error" THEN thrown.message ELSE "undefined"

EmptyInputMessage == "Please enter medical text"

NoOutputMessage == "No output to download"

NoElementMessage == "Could not find output element"

\* String.prototype.includes
Includes(text, needle) ==
  \E i \in 1..(Len(text) - Len(needle) + 1) :
    SubSeq(text, i, i + Len(needle) - 1) = needle

\* err.message.includes("Failed to fetch")
IncludesFailedToFetch(message) == Includes(message, "Failed to fetch")

\* the catch block of handleSubmit
SubmitErrorText(message) ==
  IF IncludesFailedToFetch(message)
  THEN "Connection error. Make sure the backend server is running on port 8000."
  ELSE "Error: " \o message

\* the catch block of handleDownload
ExportErrorText(thrown) == "Failed to generate PDF: " \o MessageText(thrown)

\* the synchronous loop that never ends blocks the page's only thread
Hung == lastExport.outcome = "hung"

Init ==
  /\ medicalText = <<>>
  /\ rawOutput = EmptyString
  /\ loading = FALSE
  /\ error = ""
  /\ showModal = FALSE
  /\ isCached = FALSE
  /\ submitted = 0
  /\ exchanges = {}
  /\ elapsedMs = NoElapsed
  /\ captures = 0
  /\ lastExport = NoExport

\* ---------------------------------------------------------------- submit
\* onChange={(e) => setMedicalText(e.target.value)}
ChangeText ==
  /\ ~Hung
  /\ \E text \in Texts \ {medicalText} : medicalText' = text
  /\ UNCHANGED <<rawOutput, loading, error, showModal, isCached, submitted,
                 exchanges, elapsedMs, captures, lastExport>>

\* handleSubmit, the guard's early return
RejectEmpty ==
  /\ error' = EmptyInputMessage
  /\ UNCHANGED <<medicalText, rawOutput, loading, showModal, isCached,
                 submitted, exchanges, elapsedMs, captures, lastExport>>

\* a submit that keeps the previous result on display while it runs
SendRequestKeepsResult ==
  /\ submitted < MaxRequests
  /\ loading' = TRUE
  /\ error' = ""
  /\ submitted' = submitted + 1
  /\ exchanges' = exchanges \cup {submitted + 1}
  /\ elapsedMs' = NoElapsed
  /\ UNCHANGED <<medicalText, rawOutput, isCached, showModal, captures,
                 lastExport>>

\* handleSubmit from setLoading(true) to the call of fetch
SendRequest ==
  /\ submitted < MaxRequests
  /\ loading' = TRUE
  /\ error' = ""
  /\ rawOutput' = EmptyString
  /\ isCached' = FALSE
  /\ submitted' = submitted + 1
  /\ exchanges' = exchanges \cup {submitted + 1}
  /\ elapsedMs' = NoElapsed
  /\ UNCHANGED <<medicalText, showModal, captures, lastExport>>

\* handleSubmit up to its first await
handleSubmit == IF EmptyInput(medicalText) THEN RejectEmpty ELSE SendRequest

\* a Submit button that stays enabled during an exchange
SubmitDisabledIgnoresLoading == EmptyInput(medicalText)

\* disabled={loading || !medicalText.trim()}
SubmitDisabled == loading \/ EmptyInput(medicalText)

\* a click on the Submit button
ClickSubmit ==
  /\ ~Hung
  /\ ~SubmitDisabled
  /\ handleSubmit

\* a catch without the finally block
SubmitFailsKeepsLoading(id, message) ==
  /\ error' = SubmitErrorText(message)
  /\ exchanges' = exchanges \ {id}
  /\ UNCHANGED <<medicalText, rawOutput, loading, showModal, isCached,
                 submitted, elapsedMs, captures, lastExport>>

\* catch and finally of handleSubmit
SubmitFails(id, message) ==
  /\ error' = SubmitErrorText(message)
  /\ loading' = FALSE
  /\ exchanges' = exchanges \ {id}
  /\ UNCHANGED <<medicalText, rawOutput, showModal, isCached, submitted,
                 elapsedMs, captures, lastExport>>

\* fetch rejects: the network exchange failed
FetchRejects ==
  /\ ~Hung
  /\ \E id \in exchanges, message \in FetchMessages : SubmitFails(id, message)

\* !response.ok: throw new Error(`HTTP ${status}: ${body}`)
ResponseNotOk ==
  /\ ~Hung
  /\ \E id \in exchanges, message \in HttpMessages : SubmitFails(id, message)

\* response.json() rejects
ResponseJsonRejects ==
  /\ ~Hung
  /\ \E id \in exchanges : SubmitFails(id, JsonMessage)

\* the branches on result.raw_llama_output, then finally
ShowResult(id, body, responseTime) ==
  /\ IF body = "raw"
     THEN /\ rawOutput' = RawLlamaOutput(id)
          /\ isCached' = Classify(responseTime)
     ELSE /\ rawOutput' = JsonText(id)
          /\ UNCHANGED isCached
  /\ showModal' = TRUE
  /\ elapsedMs' = responseTime
  /\ loading' = FALSE
  /\ exchanges' = exchanges \ {id}
  /\ UNCHANGED <<medicalText, error, submitted, captures, lastExport>>

\* a 2xx response whose body parses
ResponseParsed ==
  /\ ~Hung
  /\ \E id \in exchanges, body \in Bodies, responseTime \in ElapsedTimes :
       IF body = "null"
       THEN SubmitFails(id, NullMessage)
       ELSE ShowResult(id, body, responseTime)

\* ---------------------------------------------------------------- sample
loadSample ==
  /\ ~Hung
  /\ medicalText' = sampleText
  /\ error' = ""
  /\ rawOutput' = EmptyString
  /\ UNCHANGED <<loading, showModal, isCached, submitted, exchanges,
                 elapsedMs, captures, lastExport>>

\* ----------------------------------------------------------------- modal
\* The modal is a fixed overlay drawn over the page.  It takes no control out
\* of the document: the buttons and the textarea under it stay focusable and
\* are operated from the keyboard, so no action is guarded by ~showModal.
\* the output panel is rendered: {rawOutput && (...)}
PanelRendered == rawOutput # EmptyString

\* View Full Output: onClick={() => setShowModal(true)}
OpenModal ==
  /\ ~Hung
  /\ PanelRendered
  /\ showModal' = TRUE
  /\ UNCHANGED <<medicalText, rawOutput, loading, error, isCached, submitted,
                 exchanges, elapsedMs, captures, lastExport>>

\* the modal's X: onClick={() => setShowModal(false)}
CloseModal ==
  /\ ~Hung
  /\ showModal
  /\ showModal' = FALSE
  /\ UNCHANGED <<medicalText, rawOutput, loading, error, isCached, submitted,
                 exchanges, elapsedMs, captures, lastExport>>

\* ---------------------------------------------------------------- export
\* outputRef.current: the <pre ref={outputRef}> of the output panel
OutputElement == PanelRendered

\* handleDownload up to its await of html2canvas
handleDownload ==
  IF rawOutput = EmptyString
  THEN /\ error' = NoOutputMessage
       /\ UNCHANGED <<medicalText, rawOutput, loading, showModal, isCached,
                      submitted, exchanges, elapsedMs, captures, lastExport>>
  ELSE IF ~OutputElement
  THEN /\ error' = NoElementMessage
       /\ UNCHANGED <<medicalText, rawOutput, loading, showModal, isCached,
                      submitted, exchanges, elapsedMs, captures, lastExport>>
  ELSE /\ captures < MaxExports
       /\ captures' = captures + 1
       /\ UNCHANGED <<medicalText, rawOutput, loading, error, showModal,
                      isCached, submitted, exchanges, elapsedMs, lastExport>>

\* a click on Download PDF (panel) or Download (modal)
ClickDownload ==
  /\ ~Hung
  /\ PanelRendered \/ showModal
  /\ handleDownload

\* the catch block of handleDownload
ExportFails(thrown) ==
  /\ error' = ExportErrorText(thrown)
  /\ UNCHANGED lastExport

\* html2canvas rejects
CaptureRejects ==
  /\ ~Hung
  /\ captures > 0
  /\ captures' = captures - 1
  /\ \E thrown \in CaptureRejections : ExportFails(thrown)
  /\ UNCHANGED <<medicalText, rawOutput, loading, showModal, isCached,
                 submitted, exchanges, elapsedMs>>

\* lines 178-205: dimensions, first page, loop, pdf.save
BuildPdf(w, h) ==
  LET r == Paginate(w, h)
  IN /\ lastExport' = [w |-> w, h |-> h,
                       outcome |-> IF r.terminates THEN "saved" ELSE "hung",
                       pages |-> r.pages]
     /\ UNCHANGED error

\* html2canvas resolves with a canvas of w x h pixels; jsPDF either draws the
\* canvas or throws on the first addImage
CaptureResolves ==
  /\ ~Hung
  /\ captures > 0
  /\ captures' = captures - 1
  /\ \/ \E size \in CanvasSizes : BuildPdf(size[1], size[2])
     \/ \E thrown \in ImageErrors : ExportFails(thrown)
  /\ UNCHANGED <<medicalText, rawOutput, loading, showModal, isCached,
                 submitted, exchanges, elapsedMs>>

\* --------------------------------------------------------- specifications
\* the component as the user drives it
Next ==
  \/ ChangeText
  \/ ClickSubmit
  \/ FetchRejects
  \/ ResponseNotOk
  \/ ResponseJsonRejects
  \/ ResponseParsed
  \/ loadSample
  \/ OpenModal
  \/ CloseModal
  \/ ClickDownload
  \/ CaptureRejects
  \/ CaptureResolves

Spec == Init /\ [][Next]_vars

\* the handlers called whatever the buttons' state
InvokeSubmit == ~Hung /\ handleSubmit

InvokeDownload == ~Hung /\ handleDownload

NextHandlers ==
  \/ ChangeText
  \/ ClickSubmit
  \/ FetchRejects
  \/ ResponseNotOk
  \/ ResponseJsonRejects
  \/ ResponseParsed
  \/ loadSample
  \/ OpenModal
  \/ CloseModal
  \/ ClickDownload
  \/ CaptureRejects
  \/ CaptureResolves
  \/ InvokeSubmit
  \/ InvokeDownload

SpecHandlers == Init /\ [][NextHandlers]_vars

\* ------------------------------------------------------------ properties
\* the last export ran the pagination to its end and saved the document
Saved == lastExport.outcome = "saved"

\* canvas.height * imgWidth, the scaled height times canvas.width
ScaledTimesWidth == lastExport.h * imgWidth

\* one page height times canvas.width
PageTimesWidth == pageHeight * lastExport.w

\* the scaled height of the last canvas is exactly k pages, k >= 1
ExactPages ==
  /\ lastExport.w > 0
  /\ ScaledTimesWidth % PageTimesWidth = 0
  /\ ScaledTimesWidth \div PageTimesWidth >= 1

\* the scaled height of the last canvas is k pages and a remainder, k >= 0
PagesAndRemainder ==
  /\ lastExport.w > 0
  /\ ScaledTimesWidth % PageTimesWidth # 0

\* C1: a saved document whose image is exactly k >= 1 pages tall has exactly
\* k pages, with no trailing blank page.
C1_NoTrailingBlankPage ==
  (Saved /\ ExactPages) =>
    Len(lastExport.pages) = ScaledTimesWidth \div PageTimesWidth

\* C2: a saved document whose image is k pages and a remainder 0 < r < 297
\* tall has exactly k + 1 pages; an image shorter than a page gives one page.
C2_RemainderAddsOnePage ==
  (Saved /\ PagesAndRemainder) =>
    Len(lastExport.pages) = (ScaledTimesWidth \div PageTimesWidth) + 1

C2_Witness ==
  /\ Saved
  /\ lastExport.w = 1000
  /\ lastExport.h = 1415
  /\ Len(lastExport.pages) = 2

\* C3: the i-th page (0-based) of a saved document draws the image at
\* vertical offset -(i * 297); a 1000 x 3000 canvas gives exactly the three
\* pages 0, -297, -594.
C3_OffsetsByPage ==
  Saved =>
    /\ \A i \in 1..Len(lastExport.pages) :
         lastExport.pages[i] = [num |-> -((i - 1) * 297), den |-> 1]
    /\ (lastExport.w = 1000 /\ lastExport.h = 3000) =>
         lastExport.pages = <<[num |-> 0, den |-> 1],
                              [num |-> -297, den |-> 1],
                              [num |-> -594, den |-> 1]>>

C3_Witness ==
  /\ Saved
  /\ lastExport.w = 1000
  /\ lastExport.h = 3000
  /\ Len(lastExport.pages) = 3

\* C4: while the payload of a successful exchange is held, the cache-hit flag
\* equals (elapsedMs < 100), whichever form the payload took.
C4_FlagFollowsElapsed ==
  rawOutput # EmptyString => (isCached <=> elapsedMs < 100)

\* C5: from a state whose input is blank no step starts an exchange or sets
\* loading, and a call of the submit handler changes the error message only.
C5_EmptySubmitRejected ==
  [][Trim(medicalText) = <<>> =>
       /\ submitted' = submitted
       /\ exchanges' \subseteq exchanges
       /\ (loading' => loading)
       /\ InvokeSubmit =>
            /\ error' = "Please enter medical text"
            /\ UNCHANGED <<rawOutput, isCached, showModal, loading>>]_vars

C5_Witness ==
  /\ error = "Please enter medical text"
  /\ rawOutput # EmptyString
  /\ showModal

\* C6: while an exchange is outstanding no payload and no cache-hit flag is
\* held, and a payload on display is the latest submission's.
C6_ResultReplaced ==
  /\ exchanges # {} => (rawOutput = EmptyString /\ ~isCached)
  /\ rawOutput # EmptyString => rawOutput.exchange = submitted

C6_Witness ==
  /\ submitted = 2
  /\ rawOutput.exchange = 2

\* a submit ends in a transport, service or parsing error
SubmitFailure == FetchRejects \/ ResponseNotOk \/ ResponseJsonRejects

\* an export ends in an error: an early return of handleDownload or its catch
ExportFailure ==
  \/ ClickDownload /\ error' \in {NoOutputMessage, NoElementMessage}
  \/ CaptureRejects
  \/ /\ CaptureResolves
     /\ error' \in {ExportErrorText(thrown) : thrown \in ImageErrors}
     /\ UNCHANGED lastExport

\* C7 as stated: after every failed submit and every failed export, loading
\* is false and an error message is set.
C7_FailureClearsLoading ==
  [][(SubmitFailure \/ ExportFailure) => (loading' = FALSE /\ error' # "")]_vars

\* C7 as amended: a failed submit leaves loading false, an error message set
\* and the Submit button enabled for non-blank input; a failed export sets an
\* error message and leaves loading as it was; loading is true exactly while
\* an exchange is outstanding.
C7_FailureScopedToAttempt ==
  [][/\ SubmitFailure =>
          /\ loading' = FALSE
          /\ error' # ""
          /\ Trim(medicalText') # <<>> => ~SubmitDisabled'
     /\ ExportFailure => (error' # "" /\ loading' = loading)
     /\ loading' <=> exchanges' # {}]_vars

C7_Witness ==
  /\ error = "Failed to generate PDF: undefined"
  /\ loading

\* C8: an export of a canvas whose width is <= 0 fails: no page of it is
\* emitted, no document of it is saved, and its loop does not run.
C8_InvalidImageRejected ==
  lastExport.w <= 0 => (lastExport.outcome = "none" /\ lastExport.pages = <<>>)

\* C9: at most one exchange is outstanding, it is the latest submission's,
\* and loading is true exactly while it is outstanding.
C9_OneExchange ==
  /\ Cardinality(exchanges) <= 1
  /\ exchanges \subseteq {submitted}
  /\ loading <=> exchanges # {}

C9_Witness ==
  /\ exchanges = {2}
  /\ loading

\* C10: the cache-hit flag is true only while a payload is held.
C10_CachedOnlyWithPayload == isCached => rawOutput # EmptyString

====
